---- MODULE Spec2Model ----
(***************************************************************************)
(* Model of base/core/lib/ocaml_utils_stubs.c: the C <-> OCaml helpers     *)
(* raise_with_two_args, named_value_exn, raise_out_of_memory, malloc_exn,  *)
(* string_ocaml_to_c, string_of_ocaml_string_option,                       *)
(* int_of_ocaml_int_option and array_map.                                  *)
(*                                                                         *)
(* The C code runs on one thread.  A behaviour is one call of one of the   *)
(* functions from managed code: `stack` holds the native frames, every     *)
(* action is one statement of one function, a return pops a frame and      *)
(* leaves its value in `ret`, and a runtime raise (caml_raise,             *)
(* caml_raise_constant, caml_failwith) drops every native frame at once.   *)
(*                                                                         *)
(* Integer widths are kept, scaled down: a C int has IntBits bits where    *)
(* the LP64 build has 32, size_t / mlsize_t / long have 2*IntBits where    *)
(* it has 64, and an OCaml int has one bit less than a long (63).  Every   *)
(* conversion between them is computed as the build computes it.           *)
(***************************************************************************)
EXTENDS Integers, Sequences, FiniteSets, TLC

\* ------------------------------------------------------------------ bounds

\* Width of C int and unsigned int (32 on the real build).
IntBits == 3
\* Longest string of the exhaustively enumerated short strings.
MaxStrLen == 2
\* Longest array of the exhaustively enumerated short arrays.
MaxArrLen == 2

\* ------------------------------------------------------- program constants

\* sizeof(msg) in named_value_exn.
MsgSize == 256
\* The null pointer.
NULL == 0
\* sizeof(char*), in the allocation units of the model.
PtrSize == 2

\* ------------------------------------------------------------ integer types

RECURSIVE Pow2(_)
Pow2(n) == IF n = 0 THEN 1 ELSE 2 * Pow2(n - 1)

\* size_t, mlsize_t and long are twice as wide as int.
SizeBits == 2 * IntBits
IntMax == Pow2(IntBits - 1) - 1
IntMin == -Pow2(IntBits - 1)
\* OCaml's int: one bit less than the machine word.
MlIntMax == Pow2(SizeBits - 2) - 1
MlIntMin == -Pow2(SizeBits - 2)
MlInts == MlIntMin..MlIntMax

\* Conversion of an integer to C int (two's complement wrap, as gcc/clang do).
ToInt(x) ==
  LET m == x % Pow2(IntBits)
  IN  IF m > IntMax THEN m - Pow2(IntBits) ELSE m

\* Conversion of an integer to unsigned int.
ToUInt(x) == x % Pow2(IntBits)

\* Conversion of an integer to size_t.
ToSize(x) == x % Pow2(SizeBits)

\* The largest request malloc can ever satisfy (PTRDIFF_MAX).
MaxMalloc == Pow2(SizeBits - 1) - 1

Min(a, b) == IF a < b THEN a ELSE b

Fill(n, c) == [i \in 1..n |-> c]

\* ------------------------------------------------------------ managed values

\* Values handed to the conversion functions, by their runtime tag.
MlString(s) == [t |-> "string", s |-> s]
MlNone == [t |-> "none"]
MlSome(x) == [t |-> "some", x |-> x]
MlInt(n) == [t |-> "int", n |-> n]
MlArray(a) == [t |-> "array", a |-> a]

Is_none(v) == v.t = "none"
Is_some(v) == v.t = "some"
\* Field(v, 0) of a some-block.
Field0(v) == v.x
\* Long_val: the machine integer (a long) of an OCaml int.
Long_val(v) == v.n
\* caml_string_length: an mlsize_t.
caml_string_length(v) == Len(v.s)
\* String_val: the bytes of the block.  The runtime keeps a 0 byte right
\* after the last byte of every string.
String_val(v) == v.s \o <<0>>
\* Wosize_val of an array block: its number of elements.
Wosize_val(v) == Len(v.a)

\* --------------------------------------------------------------- the inputs

ByteVals == {0, 65}
ShortStrings == UNION {[1..n -> ByteVals] : n \in 0..MaxStrLen}
\* Lengths at and around the limits of int and unsigned int.
LongLens == {IntMax, IntMax + 1, Pow2(IntBits) - 1, Pow2(IntBits), Pow2(IntBits) + 1}
LongStrings == {Fill(n, 65) : n \in LongLens}
Strings == {MlString(s) : s \in ShortStrings \cup LongStrings}
StringOptions == {MlNone} \cup {MlSome(v) : v \in Strings}
IntOptions == {MlNone} \cup {MlSome(MlInt(n)) : n \in MlInts}
CellInits == {IntMin, 0, IntMax}

ElemStrings == {MlString(<<>>), MlString(<<65>>), MlString(<<65, 0>>)}
ElemOptions == {MlNone, MlSome(MlString(<<65>>))}
ArrLens == {Pow2(IntBits) - 1, Pow2(IntBits), Pow2(IntBits) + 1}
StringArrays ==
  {MlArray(a) : a \in UNION {[1..n -> ElemStrings] : n \in 0..MaxArrLen}}
    \cup {MlArray(Fill(n, MlString(<<65>>))) : n \in ArrLens}
OptionArrays ==
  {MlArray(a) : a \in UNION {[1..n -> ElemOptions] : n \in 0..MaxArrLen}}
    \cup {MlArray(Fill(n, MlSome(MlString(<<65>>)))) : n \in ArrLens}

\* "Out_of_memory"
OutOfMemoryName == <<79, 117, 116, 95, 111, 102, 95, 109, 101, 109, 111, 114, 121>>
\* " not registered."
NotRegistered ==
  <<32, 110, 111, 116, 32, 114, 101, 103, 105, 115, 116, 101, 114, 101, 100, 46>>
\* The names looked up: the one the stubs use, a short one, and names at and
\* around the size of the message buffer.
Names ==
  { OutOfMemoryName, <<102, 111, 111>>,
    Fill(MsgSize - 1 - Len(NotRegistered), 97),
    Fill(MsgSize - Len(NotRegistered), 97),
    Fill(MsgSize + 10, 97) }

\* The cell caml_named_value returns for a registered name (never NULL), and
\* the value stored in it.
NamedCell(n) == 1000 + Len(n)
CellValue(p) == 2 * p

\* ------------------------------------------------------------------- state

VARIABLES
  stack,     \* the native frames, innermost last
  heap,      \* the native (malloc) heap: block p is heap[p]
  ret,       \* the function that returned last, and its value
  outcome,   \* "idle", "running", "returned" or "raised"
  exn,       \* the exception handed to the runtime's raise
  registry,  \* the names registered with the runtime
  cell,      \* the caller's int that int_of_ocaml_int_option writes through
  mheap,     \* the managed heap: address -> block
  roots,     \* the locals of the running frame registered as GC roots
  call,      \* the call made from managed code, with its arguments
  obs        \* what happened during the call (survives a raise)

vars == <<stack, heap, ret, outcome, exn, registry, cell, mheap, roots, call, obs>>

NoExn == [kind |-> "none", val |-> 0, msg |-> <<>>]

Init ==
  /\ stack = <<>>
  /\ heap = <<>>
  /\ ret = [fn |-> "", val |-> 0]
  /\ outcome = "idle"
  /\ exn = NoExn
  /\ registry \in SUBSET Names
  /\ cell = 0
  /\ mheap = <<>>
  /\ roots = {}
  /\ call = [op |-> "", arg |-> 0]
  /\ obs = [mallocFailed |-> FALSE, queried |-> <<>>, new_array |-> NULL, fcalls |-> <<>>]

Top == stack[Len(stack)]
Running(fn, pc) == Len(stack) > 0 /\ Top.fn = fn /\ Top.pc = pc
\* The stack with the running frame replaced by f.
Goto(f) == [stack EXCEPT ![Len(stack)] = f]
\* The stack with the running frame left as f and the frame g of a callee on top.
Invoke(f, g) == Append(Goto(f), g)

\* return v;
Return(v) ==
  /\ stack' = SubSeq(stack, 1, Len(stack) - 1)
  /\ ret' = [fn |-> Top.fn, val |-> v]
  /\ outcome' = IF Len(stack) = 1 THEN "returned" ELSE outcome

\* The runtime's raise: control goes to the managed handler, every native
\* frame is dropped and the local roots are reset.  Native memory is untouched.
Divert(e) ==
  /\ stack' = <<>>
  /\ exn' = e
  /\ outcome' = "raised"
  /\ roots' = {}

\* A call from managed code.
Enter(op, arg, frame) ==
  /\ outcome = "idle"
  /\ stack = <<>>
  /\ stack' = <<frame>>
  /\ outcome' = "running"
  /\ call' = [op |-> op, arg |-> arg]

\* ------------------------------------------------------ raise_with_two_args

\* A managed value is a word: odd words are immediate integers, even words
\* are addresses of blocks on the managed heap.
Is_long(v) == v % 2 = 1
MlBlock(id, young) == [id |-> id, young |-> young, fields |-> <<>>]
\* The three arguments of a call, by kind: argument k is the immediate 2k+1,
\* or block number k, allocated in the minor heap or in the major heap.
ArgKinds == [1..3 -> {"imm", "young", "old"}]
YoungAddr(k) == 2 * k
OldAddr(k) == 2 * (k + 4)
ArgVal(kinds, k) ==
  IF kinds[k] = "imm" THEN 2 * k + 1
  ELSE IF kinds[k] = "young" THEN YoungAddr(k) ELSE OldAddr(k)
ArgHeap(kinds) ==
  LET as == {ArgVal(kinds, k) : k \in {j \in 1..3 : kinds[j] # "imm"}}
  IN  [a \in as |->
         IF a \in {YoungAddr(k) : k \in 1..3}
         THEN MlBlock(a \div 2, TRUE) ELSE MlBlock((a \div 2) - 4, FALSE)]

\* A minor collection: every block of the minor heap moves to the major heap
\* and the words that point to it are forwarded.
Forward(mh, v) ==
  IF ~Is_long(v) /\ v \in DOMAIN mh /\ mh[v].young THEN v + 16 ELSE v
MinorGC(mh) ==
  LET back(a) == CHOOSE b \in DOMAIN mh : Forward(mh, b) = a
  IN  [a \in {Forward(mh, b) : b \in DOMAIN mh} |->
         [id |-> mh[back(a)].id, young |-> FALSE,
          fields |-> [i \in DOMAIN mh[back(a)].fields |->
                        Forward(mh, mh[back(a)].fields[i])]]]
\* The collector forwards the locals registered as roots, and only those.
ForwardRoots(mh, rs, f) ==
  [f EXCEPT !.tag = IF "tag" \in rs THEN Forward(mh, @) ELSE @,
            !.arg1 = IF "arg1" \in rs THEN Forward(mh, @) ELSE @,
            !.arg2 = IF "arg2" \in rs THEN Forward(mh, @) ELSE @]
\* The next free address of the minor heap.
YoungFree(mh) ==
  CHOOSE a \in {YoungAddr(k) : k \in 1..4} :
    /\ a \notin DOMAIN mh
    /\ \A b \in {YoungAddr(k) : k \in 1..4} : b < a => b \in DOMAIN mh

\* The block id of the exception record (the arguments are blocks 1..3).
ExcId == 9

Call_raise_with_two_args ==
  \E kinds \in ArgKinds :
    /\ Enter("raise_with_two_args", kinds,
             [fn |-> "raise_with_two_args", pc |-> "begin_roots",
              tag |-> ArgVal(kinds, 1), arg1 |-> ArgVal(kinds, 2),
              arg2 |-> ArgVal(kinds, 3), v_exc |-> 0])
    /\ mheap' = ArgHeap(kinds)
    /\ UNCHANGED <<heap, ret, exn, registry, cell, roots, obs>>

\* r2_BeginRoots with one argument left out of the root registration.
r2_BeginRoots_two ==
  /\ Running("raise_with_two_args", "begin_roots")
  /\ roots' = {"tag", "arg1"}
  /\ stack' = Goto([Top EXCEPT !.pc = "alloc"])
  /\ UNCHANGED <<heap, ret, outcome, exn, registry, cell, mheap, call, obs>>

\* Begin_roots3(tag, arg1, arg2);
r2_BeginRoots ==
  /\ Running("raise_with_two_args", "begin_roots")
  /\ roots' = {"tag", "arg1", "arg2"}
  /\ stack' = Goto([Top EXCEPT !.pc = "alloc"])
  /\ UNCHANGED <<heap, ret, outcome, exn, registry, cell, mheap, call, obs>>

\* v_exc = caml_alloc_small(3, 0);  the allocation may run a minor collection.
r2_Alloc ==
  /\ Running("raise_with_two_args", "alloc")
  /\ \E gc \in BOOLEAN :
       LET mh == IF gc THEN MinorGC(mheap) ELSE mheap
           f == IF gc THEN ForwardRoots(mheap, roots, Top) ELSE Top
           a == YoungFree(mh)
       IN  /\ mheap' = [b \in DOMAIN mh \cup {a} |->
                          IF b = a THEN MlBlock(ExcId, TRUE) ELSE mh[b]]
           /\ stack' = Goto([f EXCEPT !.v_exc = a, !.pc = "fields"])
  /\ UNCHANGED <<heap, ret, outcome, exn, registry, cell, roots, call, obs>>

\* Field(v_exc, 0) = tag; Field(v_exc, 1) = arg1; Field(v_exc, 2) = arg2;
r2_Fields ==
  /\ Running("raise_with_two_args", "fields")
  /\ mheap' = [mheap EXCEPT ![Top.v_exc].fields = <<Top.tag, Top.arg1, Top.arg2>>]
  /\ stack' = Goto([Top EXCEPT !.pc = "end_roots"])
  /\ UNCHANGED <<heap, ret, outcome, exn, registry, cell, roots, call, obs>>

\* End_roots();
r2_EndRoots ==
  /\ Running("raise_with_two_args", "end_roots")
  /\ roots' = {}
  /\ stack' = Goto([Top EXCEPT !.pc = "raise"])
  /\ UNCHANGED <<heap, ret, outcome, exn, registry, cell, mheap, call, obs>>

\* r2_Raise with the raise missing: control falls off the end of the function.
r2_Raise_falls_through ==
  /\ Running("raise_with_two_args", "raise")
  /\ Return(0)
  /\ UNCHANGED <<heap, exn, registry, cell, mheap, roots, call, obs>>

\* caml_raise(v_exc);  does not return.
r2_Raise ==
  /\ Running("raise_with_two_args", "raise")
  /\ Divert([kind |-> "block", val |-> Top.v_exc, msg |-> <<>>])
  /\ UNCHANGED <<heap, ret, registry, cell, mheap, call, obs>>

\* ---------------------------------------------------------- named_value_exn

named_value_exn_frame(n) ==
  [fn |-> "named_value_exn", pc |-> "lookup", n |-> n, v |-> NULL]

\* caml_named_value: the registered cell, or NULL.
caml_named_value(n) == IF n \in registry THEN NamedCell(n) ELSE NULL

\* snprintf(msg, sizeof(msg), "%s not registered.", n): at most sizeof(msg) - 1
\* characters of the formatted text are kept.
snprintf_msg(n) ==
  LET full == n \o NotRegistered
  IN  SubSeq(full, 1, Min(Len(full), MsgSize - 1))

Call_named_value_exn ==
  \E n \in Names :
    /\ Enter("named_value_exn", n, named_value_exn_frame(n))
    /\ UNCHANGED <<heap, ret, exn, registry, cell, mheap, roots, obs>>

\* value* v = caml_named_value(n);
nv_Lookup ==
  /\ Running("named_value_exn", "lookup")
  /\ stack' = Goto([Top EXCEPT !.v = caml_named_value(Top.n), !.pc = "check"])
  /\ obs' = [obs EXCEPT !.queried = Top.n]
  /\ UNCHANGED <<heap, ret, outcome, exn, registry, cell, mheap, roots, call>>

\* if (v == NULL) { snprintf(...); caml_failwith(msg); }  does not return.
nv_Failwith ==
  /\ Running("named_value_exn", "check")
  /\ Top.v = NULL
  /\ Divert([kind |-> "failure", val |-> 0, msg |-> snprintf_msg(Top.n)])
  /\ UNCHANGED <<heap, ret, registry, cell, mheap, call, obs>>

\* return v;
nv_Return ==
  /\ Running("named_value_exn", "check")
  /\ Top.v # NULL
  /\ Return(Top.v)
  /\ UNCHANGED <<heap, exn, registry, cell, mheap, roots, call, obs>>

\* ------------------------------------------------------ raise_out_of_memory

raise_out_of_memory_frame == [fn |-> "raise_out_of_memory", pc |-> "lookup"]

Call_raise_out_of_memory ==
  /\ Enter("raise_out_of_memory", 0, raise_out_of_memory_frame)
  /\ UNCHANGED <<heap, ret, exn, registry, cell, mheap, roots, obs>>

\* oom_Lookup with another name in place of "Out_of_memory".
oom_Lookup_other_name ==
  /\ Running("raise_out_of_memory", "lookup")
  /\ stack' = Invoke([Top EXCEPT !.pc = "raise"], named_value_exn_frame(<<102, 111, 111>>))
  /\ UNCHANGED <<heap, ret, outcome, exn, registry, cell, mheap, roots, call, obs>>

\* out_of_memory = named_value_exn("Out_of_memory");
oom_Lookup ==
  /\ Running("raise_out_of_memory", "lookup")
  /\ stack' = Invoke([Top EXCEPT !.pc = "raise"], named_value_exn_frame(OutOfMemoryName))
  /\ UNCHANGED <<heap, ret, outcome, exn, registry, cell, mheap, roots, call, obs>>

\* caml_raise_constant(*out_of_memory);  does not return.
oom_Raise ==
  /\ Running("raise_out_of_memory", "raise")
  /\ Divert([kind |-> "constant", val |-> CellValue(ret.val), msg |-> <<>>])
  /\ UNCHANGED <<heap, ret, registry, cell, mheap, call, obs>>

\* --------------------------------------------------------------- malloc_exn

malloc_exn_frame(size) ==
  [fn |-> "malloc_exn", pc |-> "malloc", size |-> size, ptr |-> NULL]

Call_malloc_exn ==
  \E size \in 0..(Pow2(SizeBits) - 1) :
    /\ Enter("malloc_exn", size, malloc_exn_frame(size))
    /\ UNCHANGED <<heap, ret, exn, registry, cell, mheap, roots, obs>>

\* void* ptr = malloc(size);  malloc gives a new block of size bytes with
\* nothing written to it, or NULL; a request of 0 may give either, and a
\* request larger than MaxMalloc gives NULL.
mx_Malloc ==
  /\ Running("malloc_exn", "malloc")
  /\ \/ /\ Top.size <= MaxMalloc
        /\ heap' = Append(heap, [size |-> Top.size, cells |-> <<>>])
        /\ stack' = Goto([Top EXCEPT !.ptr = Len(heap) + 1, !.pc = "check"])
        /\ obs' = obs
     \/ /\ heap' = heap
        /\ stack' = Goto([Top EXCEPT !.ptr = NULL, !.pc = "check"])
        /\ obs' = [obs EXCEPT !.mallocFailed = TRUE]
  /\ UNCHANGED <<ret, outcome, exn, registry, cell, mheap, roots, call>>

\* if (ptr == NULL) raise_out_of_memory();
mx_RaiseOutOfMemory ==
  /\ Running("malloc_exn", "check")
  /\ Top.ptr = NULL
  /\ stack' = Invoke([Top EXCEPT !.pc = "return"], raise_out_of_memory_frame)
  /\ UNCHANGED <<heap, ret, outcome, exn, registry, cell, mheap, roots, call, obs>>

\* mx_Return with the test of ptr missing.
mx_Return_unchecked ==
  /\ \/ Running("malloc_exn", "check")
     \/ Running("malloc_exn", "return")
  /\ Return(Top.ptr)
  /\ UNCHANGED <<heap, exn, registry, cell, mheap, roots, call, obs>>

\* return ptr;  reached when ptr is not NULL, or when raise_out_of_memory
\* comes back.
mx_Return ==
  /\ \/ Running("malloc_exn", "check") /\ Top.ptr # NULL
     \/ Running("malloc_exn", "return")
  /\ Return(Top.ptr)
  /\ UNCHANGED <<heap, exn, registry, cell, mheap, roots, call, obs>>

\* -------------------------------------------------------- string_ocaml_to_c

string_ocaml_to_c_frame(s_v) ==
  [fn |-> "string_ocaml_to_c", pc |-> "length", s_v |-> s_v,
   length |-> 0, n |-> 0, s |-> NULL]

\* length + 1 in int arithmetic.  At length = INT_MAX the addition overflows,
\* which is undefined: the build either wraps to INT_MIN or carries the sum
\* out in a wider register.
IntLengthPlusOne(length) ==
  IF length = IntMax THEN {IntMin, IntMax + 1} ELSE {length + 1}

Call_string_ocaml_to_c ==
  \E s_v \in Strings :
    /\ Enter("string_ocaml_to_c", s_v, string_ocaml_to_c_frame(s_v))
    /\ UNCHANGED <<heap, ret, exn, registry, cell, mheap, roots, obs>>

\* int length;  length = caml_string_length(s_v);
sc_Length ==
  /\ Running("string_ocaml_to_c", "length")
  /\ stack' = Goto([Top EXCEPT !.length = ToInt(caml_string_length(Top.s_v)),
                               !.pc = "malloc"])
  /\ UNCHANGED <<heap, ret, outcome, exn, registry, cell, mheap, roots, call, obs>>

\* malloc_exn(length + 1): the int is converted to size_t.
sc_Malloc ==
  /\ Running("string_ocaml_to_c", "malloc")
  /\ \E n \in IntLengthPlusOne(Top.length) :
       stack' = Invoke([Top EXCEPT !.n = ToSize(n), !.pc = "memcpy"],
                       malloc_exn_frame(ToSize(n)))
  /\ UNCHANGED <<heap, ret, outcome, exn, registry, cell, mheap, roots, call, obs>>

\* s = <the result>;  memcpy(s, String_val(s_v), length + 1);
sc_Memcpy ==
  /\ Running("string_ocaml_to_c", "memcpy")
  /\ heap' = [heap EXCEPT ![ret.val].cells = SubSeq(String_val(Top.s_v), 1, Top.n)]
  /\ stack' = Goto([Top EXCEPT !.s = ret.val, !.pc = "return"])
  /\ UNCHANGED <<ret, outcome, exn, registry, cell, mheap, roots, call, obs>>

\* return s;
sc_Return ==
  /\ Running("string_ocaml_to_c", "return")
  /\ Return(Top.s)
  /\ UNCHANGED <<heap, exn, registry, cell, mheap, roots, call, obs>>

\* -------------------------------------------- string_of_ocaml_string_option

string_of_ocaml_string_option_frame(v) ==
  [fn |-> "string_of_ocaml_string_option", pc |-> "check", v |-> v]

Call_string_of_ocaml_string_option ==
  \E v \in StringOptions :
    /\ Enter("string_of_ocaml_string_option", v, string_of_ocaml_string_option_frame(v))
    /\ UNCHANGED <<heap, ret, exn, registry, cell, mheap, roots, obs>>

\* if (Is_none(v)) return NULL;
so_ReturnNull ==
  /\ Running("string_of_ocaml_string_option", "check")
  /\ Is_none(Top.v)
  /\ Return(NULL)
  /\ UNCHANGED <<heap, exn, registry, cell, mheap, roots, call, obs>>

\* string_ocaml_to_c(Field(v, 0))
so_Convert ==
  /\ Running("string_of_ocaml_string_option", "check")
  /\ ~Is_none(Top.v)
  /\ stack' = Invoke([Top EXCEPT !.pc = "return"], string_ocaml_to_c_frame(Field0(Top.v)))
  /\ UNCHANGED <<heap, ret, outcome, exn, registry, cell, mheap, roots, call, obs>>

\* return <the result>;
so_Return ==
  /\ Running("string_of_ocaml_string_option", "return")
  /\ Return(ret.val)
  /\ UNCHANGED <<heap, exn, registry, cell, mheap, roots, call, obs>>

\* -------------------------------------------------- int_of_ocaml_int_option

Call_int_of_ocaml_int_option ==
  \E v \in IntOptions, c \in CellInits :
    /\ Enter("int_of_ocaml_int_option", [v |-> v, i |-> c],
             [fn |-> "int_of_ocaml_int_option", pc |-> "store", v |-> v])
    /\ cell' = c
    /\ UNCHANGED <<heap, ret, exn, registry, mheap, roots, obs>>

\* if (Is_some(v)) *i = Long_val(Field(v, 0));  the long is converted to int.
io_Store ==
  /\ Running("int_of_ocaml_int_option", "store")
  /\ cell' = IF Is_some(Top.v) THEN ToInt(Long_val(Field0(Top.v))) ELSE cell
  /\ stack' = Goto([Top EXCEPT !.pc = "return"])
  /\ UNCHANGED <<heap, ret, outcome, exn, registry, mheap, roots, call, obs>>

\* return Is_none(v) ? 0 : 1;
io_Return ==
  /\ Running("int_of_ocaml_int_option", "return")
  /\ Return(IF Is_none(Top.v) THEN 0 ELSE 1)
  /\ UNCHANGED <<heap, exn, registry, cell, mheap, roots, call, obs>>

\* ---------------------------------------------------------------- array_map

\* The frame of the converter f handed to array_map, called on v.
ConverterFrame(f, v) ==
  IF f = "string_ocaml_to_c"
  THEN string_ocaml_to_c_frame(v) ELSE string_of_ocaml_string_option_frame(v)
\* Field(array, i)
Field(array, i) == array.a[i + 1]
\* p[i] = x in the block cells
StoreCell(cells, i, x) ==
  [j \in DOMAIN cells \cup {i + 1} |-> IF j = i + 1 THEN x ELSE cells[j]]

Call_array_map ==
  \E p \in (StringArrays \X {"string_ocaml_to_c"})
             \cup (OptionArrays \X {"string_of_ocaml_string_option"}) :
    /\ Enter("array_map", [array |-> p[1], f |-> p[2]],
             [fn |-> "array_map", pc |-> "length", array |-> p[1], f |-> p[2],
              new_array |-> NULL, i |-> 0, length |-> 0])
    /\ UNCHANGED <<heap, ret, exn, registry, cell, mheap, roots, obs>>

\* unsigned int length;  length = Wosize_val(array);
am_Length ==
  /\ Running("array_map", "length")
  /\ stack' = Goto([Top EXCEPT !.length = ToUInt(Wosize_val(Top.array)), !.pc = "check"])
  /\ UNCHANGED <<heap, ret, outcome, exn, registry, cell, mheap, roots, call, obs>>

\* if (length == 0) return NULL;
am_ReturnNull ==
  /\ Running("array_map", "check")
  /\ Top.length = 0
  /\ Return(NULL)
  /\ UNCHANGED <<heap, exn, registry, cell, mheap, roots, call, obs>>

\* am_Malloc with the test of length missing.
am_Malloc_unchecked ==
  /\ Running("array_map", "check")
  /\ stack' = Invoke([Top EXCEPT !.pc = "init"],
                     malloc_exn_frame(ToSize(PtrSize * Top.length)))
  /\ UNCHANGED <<heap, ret, outcome, exn, registry, cell, mheap, roots, call, obs>>

\* malloc_exn(sizeof(char*) * length)
am_Malloc ==
  /\ Running("array_map", "check")
  /\ Top.length # 0
  /\ stack' = Invoke([Top EXCEPT !.pc = "init"],
                     malloc_exn_frame(ToSize(PtrSize * Top.length)))
  /\ UNCHANGED <<heap, ret, outcome, exn, registry, cell, mheap, roots, call, obs>>

\* new_array = <the result>;  i = 0;
am_Init ==
  /\ Running("array_map", "init")
  /\ stack' = Goto([Top EXCEPT !.new_array = ret.val, !.i = 0, !.pc = "loop"])
  /\ obs' = [obs EXCEPT !.new_array = ret.val]
  /\ UNCHANGED <<heap, ret, outcome, exn, registry, cell, mheap, roots, call>>

\* i < length:  f__must_not_allocate_on_caml_heap(Field(array, i))
am_CallF ==
  /\ Running("array_map", "loop")
  /\ Top.i < Top.length
  /\ stack' = Invoke([Top EXCEPT !.pc = "store"],
                     ConverterFrame(Top.f, Field(Top.array, Top.i)))
  /\ obs' = [obs EXCEPT !.fcalls = Append(@, Top.i)]
  /\ UNCHANGED <<heap, ret, outcome, exn, registry, cell, mheap, roots, call>>

\* am_Store writing every result to new_array[0].
am_Store_first_slot ==
  /\ Running("array_map", "store")
  /\ heap' = [heap EXCEPT ![Top.new_array].cells = StoreCell(@, 0, ret.val)]
  /\ stack' = Goto([Top EXCEPT !.i = ToUInt(Top.i + 1), !.pc = "loop"])
  /\ UNCHANGED <<ret, outcome, exn, registry, cell, mheap, roots, call, obs>>

\* new_array[i] = <the result>;  i++
am_Store ==
  /\ Running("array_map", "store")
  /\ heap' = [heap EXCEPT ![Top.new_array].cells = StoreCell(@, Top.i, ret.val)]
  /\ stack' = Goto([Top EXCEPT !.i = ToUInt(Top.i + 1), !.pc = "loop"])
  /\ UNCHANGED <<ret, outcome, exn, registry, cell, mheap, roots, call, obs>>

\* !(i < length):  return new_array;
am_Return ==
  /\ Running("array_map", "loop")
  /\ ~(Top.i < Top.length)
  /\ Return(Top.new_array)
  /\ UNCHANGED <<heap, exn, registry, cell, mheap, roots, call, obs>>

\* ------------------------------------------------------------ specification

Next ==
  \/ Call_raise_with_two_args
  \/ r2_BeginRoots
  \/ r2_Alloc
  \/ r2_Fields
  \/ r2_EndRoots
  \/ r2_Raise
  \/ Call_named_value_exn
  \/ nv_Lookup
  \/ nv_Failwith
  \/ nv_Return
  \/ Call_raise_out_of_memory
  \/ oom_Lookup
  \/ oom_Raise
  \/ Call_malloc_exn
  \/ mx_Malloc
  \/ mx_RaiseOutOfMemory
  \/ mx_Return
  \/ Call_string_ocaml_to_c
  \/ sc_Length
  \/ sc_Malloc
  \/ sc_Memcpy
  \/ sc_Return
  \/ Call_string_of_ocaml_string_option
  \/ so_ReturnNull
  \/ so_Convert
  \/ so_Return
  \/ Call_int_of_ocaml_int_option
  \/ io_Store
  \/ io_Return
  \/ Call_array_map
  \/ am_Length
  \/ am_ReturnNull
  \/ am_Malloc
  \/ am_Init
  \/ am_CallF
  \/ am_Store
  \/ am_Return

Spec == Init /\ [][Next]_vars

\* ------------------------------------------------------------------ claims

Done == stack = <<>> /\ outcome # "idle"

\* p points to a live native block that holds exactly the bytes of the managed
\* string v followed by the terminator 0.
IsCopyOf(p, v) ==
  /\ p # NULL
  /\ p \in DOMAIN heap
  /\ heap[p].size = Len(v.s) + 1
  /\ heap[p].cells = v.s \o <<0>>

\* What a converter yields for the element v: NULL for none, else a copy.
IsConversionOf(p, v) ==
  IF Is_none(v) THEN p = NULL
  ELSE IF Is_some(v) THEN IsCopyOf(p, Field0(v)) ELSE IsCopyOf(p, v)

\* x occurs in m as a contiguous run.
Contains(m, x) ==
  \E k \in 0..(Len(m) - Len(x)) : SubSeq(m, k + 1, k + Len(x)) = x

\* The exception raise_out_of_memory is meant to raise.
OutOfMemoryExn ==
  [kind |-> "constant", val |-> CellValue(NamedCell(OutOfMemoryName)), msg |-> <<>>]

\* C1: string_of_ocaml_string_option returns NULL for none without
\* allocating, and for some(s) a fresh native block of Len(s) + 1 bytes that
\* holds the bytes of s followed by 0.
C1_StringOptionCopy ==
  (call.op = "string_of_ocaml_string_option" /\ outcome = "returned") =>
    IF Is_none(call.arg)
    THEN ret.val = NULL /\ heap = <<>>
    ELSE IsCopyOf(ret.val, Field0(call.arg))

\* C2: array_map on an array of n >= 1 elements returns a native array of
\* exactly n entries, entry i being the result of f on element i, f having
\* been called once per element in increasing order, each non-null entry a
\* block of its own.
C2_ArrayMapAll ==
  (call.op = "array_map" /\ outcome = "returned" /\ Len(call.arg.array.a) >= 1) =>
    LET n == Len(call.arg.array.a)
    IN  /\ ret.val # NULL
        /\ ret.val \in DOMAIN heap
        /\ DOMAIN heap[ret.val].cells = 1..n
        /\ \A i \in 1..n :
             IsConversionOf(heap[ret.val].cells[i], call.arg.array.a[i])
        /\ \A i, j \in 1..n :
             (i # j /\ heap[ret.val].cells[i] # NULL)
               => heap[ret.val].cells[i] # heap[ret.val].cells[j]
        /\ obs.fcalls = [i \in 1..n |-> i - 1]

\* C3: malloc_exn never hands NULL to its caller: a return of malloc_exn
\* carries a live block, raise_out_of_memory never returns, and the statement
\* after the call of raise_out_of_memory is never reached.
C3_MallocExnNeverNull ==
  /\ ret.fn = "malloc_exn" => (ret.val # NULL /\ ret.val \in DOMAIN heap)
  /\ ret.fn # "raise_out_of_memory"
  /\ ~Running("malloc_exn", "return")

C3_Witness ==
  call.op = "malloc_exn" /\ obs.mallocFailed /\ outcome = "raised"

\* C4 as stated: every failed allocation ends in the raise of the
\* out-of-memory exception found under "Out_of_memory".
C4_AlwaysOutOfMemory ==
  (obs.mallocFailed /\ Done) => (outcome = "raised" /\ exn = OutOfMemoryExn)

\* C4 as amended: every failed allocation ends in a raise and nothing is
\* returned; "Out_of_memory" is looked up through named_value_exn, and the
\* exception is the registered out-of-memory exception when the name is
\* registered, and the failure "Out_of_memory not registered." when it is not.
C4_OutOfMemoryOrFailure ==
  /\ obs.mallocFailed => outcome # "returned"
  /\ (obs.mallocFailed /\ ret.fn = "malloc_exn") => ret.val # NULL
  /\ (obs.mallocFailed /\ Done) =>
       /\ outcome = "raised"
       /\ obs.queried = OutOfMemoryName
       /\ exn = IF OutOfMemoryName \in registry
                THEN OutOfMemoryExn
                ELSE [kind |-> "failure", val |-> 0,
                      msg |-> OutOfMemoryName \o NotRegistered]

C4_Witness ==
  /\ call.op = "array_map"
  /\ obs.mallocFailed
  /\ outcome = "raised"
  /\ exn = OutOfMemoryExn

\* C5: int_of_ocaml_int_option returns 0 and leaves *i alone for none, and
\* returns 1 with *i = n for some(n), for every OCaml int n.
C5_IntOption ==
  (call.op = "int_of_ocaml_int_option" /\ outcome = "returned") =>
    IF Is_none(call.arg.v)
    THEN ret.val = 0 /\ cell = call.arg.i
    ELSE ret.val = 1 /\ cell = Long_val(Field0(call.arg.v))

\* C6: named_value_exn on an unregistered name n raises a failure whose
\* message contains n followed by " not registered."; on a registered name
\* it returns the registered cell, which is not NULL.
C6_NamedValueExn ==
  (call.op = "named_value_exn" /\ Done) =>
    IF call.arg \in registry
    THEN outcome = "returned" /\ ret.val = NamedCell(call.arg) /\ ret.val # NULL
    ELSE /\ outcome = "raised"
         /\ exn.kind = "failure"
         /\ Contains(exn.msg, call.arg \o NotRegistered)

\* C7: raise_with_two_args never returns: the call ends only in the raise of
\* a record of three slots.
C7_NeverReturns ==
  call.op = "raise_with_two_args" =>
    /\ outcome # "returned"
    /\ ret.fn # "raise_with_two_args"
    /\ Done => /\ outcome = "raised"
               /\ exn.kind = "block"
               /\ exn.val \in DOMAIN mheap
               /\ Len(mheap[exn.val].fields) = 3

C7_Witness ==
  call.op = "raise_with_two_args" /\ outcome = "raised"

\* C8: array_map on an array of length 0 returns NULL, allocates nothing
\* (malloc_exn is not entered) and never calls f.
C8_EmptyArray ==
  (call.op = "array_map" /\ Len(call.arg.array.a) = 0) =>
    /\ heap = <<>>
    /\ ~obs.mallocFailed
    /\ obs.fcalls = <<>>
    /\ \A k \in 1..Len(stack) : stack[k].fn = "array_map"
    /\ outcome # "raised"
    /\ outcome = "returned" => (ret.fn = "array_map" /\ ret.val = NULL)

C8_Witness ==
  call.op = "array_map" /\ Len(call.arg.array.a) = 0 /\ outcome = "returned"

\* What the word v denotes in the managed heap as it is now.
Denotes(v) ==
  IF Is_long(v) THEN <<"imm", v>>
  ELSE IF v \in DOMAIN mheap THEN <<"block", mheap[v].id>> ELSE <<"stale", v>>
\* What argument k of the call denoted when the call was made.
Denoted(kinds, k) ==
  IF kinds[k] = "imm" THEN <<"imm", 2 * k + 1>> ELSE <<"block", k>>

\* C9: tag, arg1 and arg2 are all roots whenever the allocation of the record
\* can run; the roots are released before the raise; and the record raised
\* holds in slots 0..2 the tag, arg1 and arg2 of the call as they are after
\* any collection, never a stale word.
C9_RootsProtect ==
  call.op = "raise_with_two_args" =>
    /\ Running("raise_with_two_args", "alloc") => roots = {"tag", "arg1", "arg2"}
    /\ Running("raise_with_two_args", "raise") => roots = {}
    /\ outcome = "raised" =>
         /\ roots = {}
         /\ exn.val \in DOMAIN mheap
         /\ DOMAIN mheap[exn.val].fields = 1..3
         /\ \A k \in 1..3 : Denotes(mheap[exn.val].fields[k]) = Denoted(call.arg, k)

C9_Witness ==
  /\ call.op = "raise_with_two_args"
  /\ outcome = "raised"
  /\ call.arg[3] = "young"
  /\ mheap[exn.val].fields[3] # ArgVal(call.arg, 3)

\* C10: when array_map is left by a raise while element k is converted, the
\* native array and the results stored for elements 0..k-1 are still
\* allocated, f has been called for elements 0..k and for no other, and
\* nothing was returned by array_map.
C10_NoCleanup ==
  (call.op = "array_map" /\ outcome = "raised" /\ obs.new_array # NULL) =>
    /\ obs.new_array \in DOMAIN heap
    /\ LET cells == heap[obs.new_array].cells
           k == Len(cells)
       IN  /\ heap[obs.new_array].size = PtrSize * ToUInt(Len(call.arg.array.a))
           /\ k < Len(call.arg.array.a)
           /\ obs.fcalls = [i \in 1..(k + 1) |-> i - 1]
           /\ \A i \in 1..k : IsConversionOf(cells[i], call.arg.array.a[i])
           /\ Len(heap) = 1 + Cardinality({i \in 1..k : cells[i] # NULL})
    /\ ret.fn # "array_map"

C10_Witness ==
  /\ call.op = "array_map"
  /\ outcome = "raised"
  /\ obs.new_array # NULL
  /\ Len(heap[obs.new_array].cells) >= 1

====
